---- MODULE Spec2Model ----
(***************************************************************************)
(* The persistence layer of finch (src/persist.go): the users, channel,    *)
(* post and postchannel tables behind one database handle, and the         *)
(* repository operations CreateUser, AddChannels, AddPost, GetUser,        *)
(* GetUserById, UserChannels, GetChannel, GetPost and GetAllPosts.         *)
(*                                                                         *)
(* A write operation runs its statements on a transaction (one connection) *)
(* and its lookups on the handle (another connection of the pool), so a    *)
(* lookup made before the commit sees the committed tables only.  The      *)
(* engine lets one transaction write at a time and no operation changes or *)
(* deletes a row, so an operation, from its Begin to its return, is one    *)
(* step here, and concurrent callers are any order of such steps.  A       *)
(* transaction that is never ended keeps the write lock: lock = Leaked.    *)
(* The uniqueness constraints and the row identifiers are the schema's.    *)
(***************************************************************************)
EXTENDS Integers, Sequences, FiniteSets, TLC

\* ---------------------------------------------------------------- bounds
MaxTime == 1
MaxPosts == 2
MaxChannels == 3
MaxNames == 2
MaxPostChans == 2
MaxLimit == 2

Usernames == {"alice", "bob"}
Passwords == {"pw1", "pw2"}
Bodies == {"hello", "bye"}
UUIDs == {"u1", "u2", "u3"}
\* a label is a string, written as the sequence of its characters
Labels == { <<>>, <<"A", " ", "B">>, <<"a", "_", "b">>, <<"D">> }
\* the Id of the User value a caller passes; the last one is never stored
UserIds == 1 .. (Cardinality(Usernames) + 1)
\* who posts: the first user stored, and the one that never is
Posters == {1, Cardinality(Usernames) + 1}

Nil == [nil |-> TRUE]
Free == "free"
Leaked == "leaked"

VARIABLES users, channel, post, postchannel, lock, now, tieAsc, last

vars == <<users, channel, post, postchannel, lock, now, tieAsc, last>>

\* ---------------------------------------------------------------- helpers
Range(s) == { s[i] : i \in 1 .. Len(s) }

Min(a, b) == IF a < b THEN a ELSE b

SeqsUpTo(S, n) == UNION { [1 .. k -> S] : k \in 0 .. n }

\* ---------------------------------------------------------------- schema
\* id integer primary key: the next row identifier of a table
NextRowId(tbl) == Len(tbl) + 1

\* users(username unique)
UsernameTaken(tbl, username) == \E r \in Range(tbl) : r.username = username

\* channel without the constraint
NoSlugTaken(tbl, u, slug) == FALSE

\* channel: unique (user_id, slug)
SlugTaken(tbl, u, slug) == \E r \in Range(tbl) : r.user_id = u /\ r.slug = slug

\* post(uuid unique)
UuidTaken(tbl, uuid) == \E r \in Range(tbl) : r.uuid = uuid

\* ---------------------------------------------------------------- slugs
ToLowerChar(c) ==
    CASE c = "A" -> "a"
      [] c = "B" -> "b"
      [] c = "D" -> "d"
      [] OTHER -> c

\* strings.Replace(s, " ", "_", -1)
RECURSIVE ReplaceSpaces(_)
ReplaceSpaces(s) ==
    IF s = <<>> THEN <<>>
    ELSE <<IF Head(s) = " " THEN "_" ELSE Head(s)>> \o ReplaceSpaces(Tail(s))

\* strings.ToLower(s)
RECURSIVE ToLower(_)
ToLower(s) ==
    IF s = <<>> THEN <<>>
    ELSE <<ToLowerChar(Head(s))>> \o ToLower(Tail(s))

\* the slug without strings.ToLower
SlugKeepCase(label) == ReplaceSpaces(label)

Slug(label) == ToLower(ReplaceSpaces(label))

\* ---------------------------------------------------------------- lookups
\* user.SetPassword: the stored credential derived from the plaintext
SetPassword(password) == <<"hash", password>>

UserOf(row) == [Id |-> row.id, Username |-> row.username, Password |-> row.password]

GetUser(us, username) ==
    IF \E r \in Range(us) : r.username = username
    THEN [found |-> TRUE,
          user |-> UserOf(CHOOSE r \in Range(us) : r.username = username)]
    ELSE [found |-> FALSE, user |-> Nil]

GetUserById(us, id) ==
    IF \E r \in Range(us) : r.id = id
    THEN [err |-> FALSE, user |-> UserOf(CHOOSE r \in Range(us) : r.id = id)]
    ELSE [err |-> TRUE, user |-> Nil]

UserChannels(ch, u) ==
    LET Mine(r) == r.user_id = u
        rows == SelectSeq(ch, Mine)
    IN  [i \in 1 .. Len(rows) |->
            [Id |-> rows[i].id, Slug |-> rows[i].slug, Label |-> rows[i].label]]

GetChannel(ch, u, slug) ==
    IF \E r \in Range(ch) : r.user_id = u /\ r.slug = slug
    THEN LET r == CHOOSE r \in Range(ch) : r.user_id = u /\ r.slug = slug
         IN  [err |-> FALSE,
              c |-> [Id |-> r.id, User |-> u, Slug |-> slug, Label |-> r.label]]
    ELSE [err |-> TRUE, c |-> Nil]

PostOf(r, user) ==
    [Id |-> r.id, UUID |-> r.uuid, User |-> user, Body |-> r.body, Posted |-> r.posted]

GetPost(ps, us, id) ==
    IF \E r \in Range(ps) : r.id = id
    THEN LET r == CHOOSE r \in Range(ps) : r.id = id
             g == GetUserById(us, r.user_id)
         IN  IF g.err THEN [err |-> TRUE, post |-> Nil]
             ELSE [err |-> FALSE, post |-> PostOf(r, g.user)]
    ELSE [err |-> TRUE, post |-> Nil]

\* "order by posted desc": rows with equal posted come out in the order of
\* the engine's scan, by rowid, the same way for every execution of the query
PostBefore(a, b) ==
    \/ a.posted > b.posted
    \/ a.posted = b.posted /\ (IF tieAsc THEN a.id < b.id ELSE a.id > b.id)

RECURSIVE OrderByPostedDesc(_)
OrderByPostedDesc(S) ==
    IF S = {} THEN <<>>
    ELSE LET first == CHOOSE a \in S : \A b \in S \ {a} : PostBefore(a, b)
         IN  <<first>> \o OrderByPostedDesc(S \ {first})

\* the offset dropped
LimitOnly(rows, limit, offset) == SubSeq(rows, 1, Min(Len(rows), limit))

\* "limit ? offset ?"
LimitOffset(rows, limit, offset) ==
    SubSeq(rows, offset + 1, Min(Len(rows), offset + limit))

\* the loop left at the first post whose user is not found
RECURSIVE ScanPostsBreak(_, _, _)
ScanPostsBreak(us, rows, posts) ==
    IF rows = <<>> THEN [err |-> FALSE, posts |-> posts]
    ELSE LET g == GetUserById(us, Head(rows).user_id)
         IN  IF g.err THEN [err |-> FALSE, posts |-> posts]
             ELSE ScanPostsBreak(us, Tail(rows), Append(posts, PostOf(Head(rows), g.user)))

\* the rows.Next() loop of GetAllPosts
RECURSIVE ScanPosts(_, _, _)
ScanPosts(us, rows, posts) ==
    IF rows = <<>> THEN [err |-> FALSE, posts |-> posts]
    ELSE LET g == GetUserById(us, Head(rows).user_id)
         IN  IF g.err THEN ScanPosts(us, Tail(rows), posts)
             ELSE ScanPosts(us, Tail(rows), Append(posts, PostOf(Head(rows), g.user)))

GetAllPosts(ps, us, limit, offset) ==
    ScanPosts(us, LimitOffset(OrderByPostedDesc(Range(ps)), limit, offset), <<>>)

\* ---------------------------------------------------------------- state
\* last: the operation that returned last, what it was given, the table it
\* wrote as it was at the call, and what it returned
NoCall == [op |-> "none"]

Init ==
    /\ users = <<>>
    /\ channel = <<>>
    /\ post = <<>>
    /\ postchannel = <<>>
    /\ lock = Free
    /\ now = 0
    /\ tieAsc \in BOOLEAN
    /\ last = NoCall

\* ---------------------------------------------------------------- CreateUser
\* insert into users(username, password) values(?, ?)
InsertUser(tbl, username, encpassword) ==
    IF UsernameTaken(tbl, username)
    THEN [err |-> TRUE, tbl |-> tbl]
    ELSE [err |-> FALSE,
          tbl |-> Append(tbl, [id |-> NextRowId(tbl), username |-> username,
                               password |-> encpassword])]

\* the error of the insert returned to the caller
CreateUserResultErr(us, username, execErr) ==
    IF execErr THEN [ret |-> Nil, err |-> TRUE]
    ELSE [ret |-> GetUser(us, username).user, err |-> FALSE]

\* what CreateUser returns once the insert has run and the transaction is
\* committed: u, _ := p.GetUser(username); return u, nil
CreateUserResult(us, username, execErr) ==
    [ret |-> GetUser(us, username).user, err |-> FALSE]

CreateUserTx(username, password, fault) ==
    /\ lock = Free
    /\ LET r == IF fault THEN [err |-> TRUE, tbl |-> users]
                ELSE InsertUser(users, username, SetPassword(password))
           res == CreateUserResult(r.tbl, username, r.err)
       IN  /\ users' = r.tbl
           /\ last' = [op |-> "CreateUser", username |-> username,
                       password |-> password, execErr |-> r.err,
                       before |-> users, tx |-> "committed",
                       ret |-> res.ret, err |-> res.err]
    /\ UNCHANGED <<channel, post, postchannel, lock, now, tieAsc>>

CreateUser(username, password) == CreateUserTx(username, password, FALSE)

\* ---------------------------------------------------------------- AddChannels
\* insert into channel(user_id, slug, label) values(?, ?, ?)
InsertChannel(tbl, u, slug, label) ==
    IF SlugTaken(tbl, u, slug)
    THEN [err |-> TRUE, tbl |-> tbl]
    ELSE [err |-> FALSE,
          tbl |-> Append(tbl, [id |-> NextRowId(tbl), user_id |-> u,
                               slug |-> slug, label |-> label])]

\* the channel kept when the lookup finds it
CreatedWhenFound(created, g) == IF ~g.err THEN Append(created, g.c) ELSE created

\* c, err := p.GetChannel(u, slug); if err != nil { created = append(created, c) }
Created(created, g) == IF g.err THEN Append(created, g.c) ELSE created

\* for _, label := range names { ... }, from label i on: tbl is the table as
\* the transaction sees it, ch the committed table the lookups read
RECURSIVE AddChannelsLoop(_, _, _, _, _, _)
AddChannelsLoop(ch, u, names, i, faults, acc) ==
    IF i > Len(names) THEN acc
    ELSE IF names[i] = <<>> THEN AddChannelsLoop(ch, u, names, i + 1, faults, acc)
    ELSE LET slug == Slug(names[i])
             r == IF i \in faults THEN [err |-> TRUE, tbl |-> acc.tbl]
                  ELSE InsertChannel(acc.tbl, u, slug, names[i])
             g == GetChannel(ch, u, slug)
         IN  AddChannelsLoop(ch, u, names, i + 1, faults,
                 [tbl |-> r.tbl,
                  created |-> Created(acc.created, g),
                  execErrs |-> acc.execErrs \cup (IF r.err THEN {i} ELSE {}),
                  lookupErrs |-> acc.lookupErrs \cup (IF g.err THEN {i} ELSE {})])

AddChannelsTx(u, names, faults) ==
    /\ lock = Free
    /\ Len(channel) + Len(names) <= MaxChannels
    /\ LET r == AddChannelsLoop(channel, u, names, 1, faults,
                    [tbl |-> channel, created |-> <<>>, execErrs |-> {},
                     lookupErrs |-> {}])
       IN  /\ channel' = r.tbl
           /\ last' = [op |-> "AddChannels", u |-> u, names |-> names,
                       execErrs |-> r.execErrs, lookupErrs |-> r.lookupErrs,
                       before |-> channel,
                       tx |-> "committed", ret |-> r.created, err |-> FALSE]
    /\ UNCHANGED <<users, post, postchannel, lock, now, tieAsc>>

AddChannels(u, names) == AddChannelsTx(u, names, {})

\* ---------------------------------------------------------------- AddPost
\* the body and the uuid bound to each other's column
InsertPostSwapped(tbl, u, uuid, body, posted) ==
    IF UuidTaken(tbl, body)
    THEN [err |-> TRUE, tbl |-> tbl, id |-> 0]
    ELSE [err |-> FALSE,
          tbl |-> Append(tbl, [id |-> NextRowId(tbl), user_id |-> u, uuid |-> body,
                               body |-> uuid, posted |-> posted]),
          id |-> NextRowId(tbl)]

\* "insert or replace": the row that holds the uuid gives way to the new one
InsertOrReplacePost(tbl, u, uuid, body, posted) ==
    LET Other(r) == r.uuid # uuid
        kept == SelectSeq(tbl, Other)
    IN  [err |-> FALSE,
         tbl |-> Append(kept, [id |-> NextRowId(tbl), user_id |-> u, uuid |-> uuid,
                               body |-> body, posted |-> posted]),
         id |-> NextRowId(tbl)]

\* insert into post(user_id, uuid, body, posted) values(?, ?, ?, ?)
InsertPost(tbl, u, uuid, body, posted) ==
    IF UuidTaken(tbl, uuid)
    THEN [err |-> TRUE, tbl |-> tbl, id |-> 0]
    ELSE [err |-> FALSE,
          tbl |-> Append(tbl, [id |-> NextRowId(tbl), user_id |-> u, uuid |-> uuid,
                               body |-> body, posted |-> posted]),
          id |-> NextRowId(tbl)]

\* the loop left at the first join row that fails
RECURSIVE InsertJoinsAbort(_, _, _, _, _)
InsertJoinsAbort(tbl, id, chans, i, faults) ==
    IF i > Len(chans) \/ i \in faults THEN tbl
    ELSE InsertJoinsAbort(Append(tbl, [post_id |-> id, channel_id |-> chans[i]]),
                          id, chans, i + 1, faults)

\* for _, c := range channels { cstmt.Exec(int(id), c.Id) }, from channel i on
RECURSIVE InsertJoins(_, _, _, _, _)
InsertJoins(tbl, id, chans, i, faults) ==
    IF i > Len(chans) THEN tbl
    ELSE InsertJoins(IF i \in faults THEN tbl
                     ELSE Append(tbl, [post_id |-> id, channel_id |-> chans[i]]),
                     id, chans, i + 1, faults)

\* Begin, uuid.NewV4, the post row written when the clock reads t, the join
\* rows, Commit, GetPost.  On an error of the post insert AddPost returns
\* at once.
AddPostTx(u, body, chans, uuid, t, fault, faults) ==
    /\ lock = Free
    /\ Len(post) < MaxPosts
    /\ t >= now
    /\ now' = t
    /\ LET r == IF fault THEN [err |-> TRUE, tbl |-> post, id |-> 0]
                ELSE InsertPost(post, u, uuid, body, t)
           g == GetPost(r.tbl, users, r.id)
           call == [op |-> "AddPost", u |-> u, body |-> body, chans |-> chans,
                    t0 |-> now, before |-> post, joins |-> postchannel]
       IN  IF r.err
           THEN /\ last' = call @@ [execErr |-> TRUE, joinErrs |-> {}, id |-> 0,
                                    tx |-> "open", ret |-> Nil, err |-> TRUE]
                /\ lock' = IF fault THEN lock ELSE Leaked
                /\ UNCHANGED <<post, postchannel>>
           ELSE /\ post' = r.tbl
                /\ postchannel' = InsertJoins(postchannel, r.id, chans, 1, faults)
                /\ last' = call @@ [execErr |-> FALSE, joinErrs |-> faults, id |-> r.id,
                                    tx |-> "committed", ret |-> g.post, err |-> g.err]
                /\ UNCHANGED lock
    /\ UNCHANGED <<users, channel, tieAsc>>

AddPost(u, body, chans, uuid, t) == AddPostTx(u, body, chans, uuid, t, FALSE, {})

\* ---------------------------------------------------------------- storage errors
\* an Exec that returns an error the schema does not explain (the database
\* is locked by another connection, the disk is full): nothing is written
CreateUserFault(username, password) == CreateUserTx(username, password, TRUE)

AddChannelsFault(u, names, faults) ==
    /\ faults # {}
    /\ \A i \in faults : names[i] # <<>>
    /\ AddChannelsTx(u, names, faults)

AddPostFault(u, body, chans, uuid, t) == AddPostTx(u, body, chans, uuid, t, TRUE, {})

AddPostJoinFault(u, body, chans, uuid, t, faults) ==
    /\ faults # {}
    /\ AddPostTx(u, body, chans, uuid, t, FALSE, faults)

\* ---------------------------------------------------------------- specifications
\* the channels a post is created with: channel 1, or the first k channels
FeedChans == { <<1>> }
JoinChans == { [i \in 1 .. k |-> i] : k \in 0 .. MaxPostChans }

\* every operation, the storage failing on nothing but its constraints
Next ==
    \/ \E username \in Usernames : CreateUser(username, "pw1")
    \/ AddChannels(1, << <<"D">> >>)
    \/ \E u \in Posters, body \in Bodies, chans \in FeedChans, uuid \in UUIDs,
          t \in 0 .. MaxTime :
           AddPost(u, body, chans, uuid, t)

Spec == Init /\ [][Next]_vars

\* CreateUser alone, every username with every password
NextUsers ==
    \E username \in Usernames, password \in Passwords : CreateUser(username, password)

SpecUsers == Init /\ [][NextUsers]_vars

\* AddChannels alone, every list of labels for every user
NextChannels ==
    \E u \in UserIds, names \in SeqsUpTo(Labels, MaxNames) : AddChannels(u, names)

SpecChannels == Init /\ [][NextChannels]_vars

\* CreateUser, AddPost and a failing AddChannels over a storage whose
\* statements may fail; alice is user 1 once stored, user 2 never is
NextFault ==
    \/ CreateUser("alice", "pw1")
    \/ CreateUserFault("alice", "pw1")
    \/ AddChannelsFault(1, << <<"D">> >>, {1})
    \/ \E u \in {1, 2}, chans \in JoinChans, uuid \in UUIDs :
           AddPost(u, "hello", chans, uuid, now)
    \/ \E u \in {1, 2}, chans \in JoinChans, uuid \in UUIDs :
           AddPostFault(u, "hello", chans, uuid, now)
    \/ \E u \in {1, 2}, chans \in JoinChans, uuid \in UUIDs :
       \E faults \in SUBSET DOMAIN chans :
           AddPostJoinFault(u, "hello", chans, uuid, now, faults)

SpecFault == Init /\ [][NextFault]_vars

\* ---------------------------------------------------------------- properties
\* lowercase(l) with every space replaced by an underscore
Lowercase == [c \in {"A", "B", "D", "a", "b", "d", " ", "_"} |->
                 IF c = "A" THEN "a" ELSE IF c = "B" THEN "b" ELSE IF c = "D" THEN "d" ELSE c]

DerivedSlug(l) == [i \in 1 .. Len(l) |-> IF l[i] = " " THEN "_" ELSE Lowercase[l[i]]]

NonEmpty(names) == { i \in DOMAIN names : names[i] # <<>> }

SlugsOf(cs) == { cs[i].Slug : i \in DOMAIN cs }

\* C1: after AddChannels(U, L) returns, UserChannels(U) holds a channel of U
\* for the derived slug of every non-empty label of L, and U's slugs are those
\* held before the call plus the derived ones; an empty label adds no row.
C1_ChannelsListed ==
    last.op = "AddChannels" =>
        LET wanted == { DerivedSlug(last.names[i]) : i \in NonEmpty(last.names) }
            added == SubSeq(channel, Len(last.before) + 1, Len(channel))
        IN  /\ SlugsOf(UserChannels(channel, last.u))
                   = SlugsOf(UserChannels(last.before, last.u)) \cup wanted
            /\ \A s \in wanted : \E r \in Range(channel) : r.user_id = last.u /\ r.slug = s
            /\ Len(added) <= Cardinality(NonEmpty(last.names))
            /\ \A r \in Range(added) : r.user_id = last.u /\ r.label # <<>> /\ r.slug # <<>>

C1_Witness ==
    /\ last.op = "AddChannels"
    /\ last.names = << <<>>, <<"A", " ", "B">> >>
    /\ Len(channel) = Len(last.before) + 1
    /\ Len(last.before) = 1

\* C2: no two channel rows have the same owning user and the same slug.
C2_SlugUniquePerUser ==
    \A i, j \in DOMAIN channel :
        i # j => ~(channel[i].user_id = channel[j].user_id /\ channel[i].slug = channel[j].slug)

C2_Witness ==
    /\ last.op = "AddChannels"
    /\ last.names = << <<"A", " ", "B">>, <<"a", "_", "b">> >>
    /\ last.execErrs = {2}
    /\ \E r \in Range(last.before) : r.user_id # last.u /\ r.slug = <<"a", "_", "b">>

\* C3: when AddPost(U, B, C) returns a post with no error, GetPost of its
\* identifier returns a post with body B and owner U, whose token is not empty
\* and is the token of no other stored post, and whose timestamp is not
\* earlier than the clock read before the call.
C3_PostReadBack ==
    (last.op = "AddPost" /\ ~last.err) =>
        LET g == GetPost(post, users, last.ret.Id)
        IN  /\ ~g.err
            /\ g.post = last.ret
            /\ g.post.Body = last.body
            /\ g.post.User.Id = last.u
            /\ g.post.UUID # ""
            /\ \A r \in Range(post) : r.id # g.post.Id => r.uuid # g.post.UUID
            /\ g.post.Posted >= last.t0

C3_Witness ==
    /\ last.op = "AddPost"
    /\ ~last.err
    /\ Len(post) = 2
    /\ last.ret.Posted > last.t0
    /\ post[1].body # last.body
    /\ post[1].user_id # last.u

Sorted(ps) == \A i, j \in DOMAIN ps : i < j => ps[i].Posted >= ps[j].Posted

C5_DuplicateUsername ==
    /\ \A i, j \in DOMAIN users : i # j => users[i].username # users[j].username
    /\ (last.op = "CreateUser" /\ \E r \in Range(last.before) : r.username = last.username) =>
           /\ users = last.before
           /\ ~last.err
           /\ \E i \in DOMAIN last.before :
                  /\ last.before[i].username = last.username
                  /\ last.ret = [Id |-> i, Username |-> last.username,
                                 Password |-> last.before[i].password]

C5_Witness ==
    /\ last.op = "CreateUser"
    /\ Len(last.before) = 2
    /\ last.before[1].username = last.username
    /\ last.ret.Password # SetPassword(last.password)

JoinsOf(tbl, id) ==
    LET Mine(r) == r.post_id = id
        rows == SelectSeq(tbl, Mine)
    IN  [i \in 1 .. Len(rows) |-> rows[i].channel_id]

RECURSIVE Kept(_, _, _)
Kept(chans, i, failed) ==
    IF i > Len(chans) THEN <<>>
    ELSE (IF i \in failed THEN <<>> ELSE <<chans[i]>>) \o Kept(chans, i + 1, failed)

PostCommitted ==
    /\ last.tx = "committed"
    /\ Len(post) = Len(last.before) + 1
    /\ post[last.id].id = last.id
    /\ post[last.id].body = last.body
    /\ post[last.id].user_id = last.u
    /\ JoinsOf(postchannel, last.id) = Kept(last.chans, 1, last.joinErrs)
    /\ Len(postchannel) = Len(last.joins) + Len(last.chans) - Cardinality(last.joinErrs)

\* C6 as stated: once the post row is inserted, the post and the join rows
\* that were inserted are committed and AddPost returns the post, no error.
C6_AlwaysReturnsPost ==
    (last.op = "AddPost" /\ ~last.execErr) =>
        /\ PostCommitted
        /\ ~last.err
        /\ last.ret # Nil

\* C6: once the post row is inserted, the post and exactly the join rows that
\* were inserted are committed, whatever join rows failed; AddPost returns
\* the re-read post with no error when the post's user is found, and an
\* error, the rows staying committed, when it is not.
C6_CommittedDespiteJoinErrors ==
    (last.op = "AddPost" /\ ~last.execErr) =>
        /\ PostCommitted
        /\ last.err = GetUserById(users, last.u).err
        /\ ~last.err => /\ last.ret = GetPost(post, users, last.id).post
                        /\ last.ret.Id = last.id
        /\ last.err => last.ret = Nil

C6_Witness ==
    /\ last.op = "AddPost"
    /\ ~last.execErr
    /\ ~last.err
    /\ Len(last.chans) = 2
    /\ last.joinErrs = {1}
    /\ Len(last.joins) > 0

\* C7: a post row, once in post, is in post after every step as it was, and
\* a row a step adds has the identifier and the token of no row present.
C7_PostsKept ==
    [][ /\ \A r \in Range(post) : r \in Range(post')
        /\ \A n \in Range(post') \ Range(post) :
               \A r \in Range(post) : n.id # r.id /\ n.uuid # r.uuid ]_vars

C7_Witness ==
    /\ Len(post) = 2
    /\ post[1].uuid # post[2].uuid
    /\ last.op = "AddChannels"
    /\ Len(users) = 2

\* C8: an operation that began a transaction has committed it when it returns.
C8_TransactionEnded ==
    last.op \in {"CreateUser", "AddChannels", "AddPost"} => last.tx = "committed"

\* the place of each post row in "order by posted desc", by its identifier
Rank == [id \in DOMAIN post |->
            1 + Cardinality({ q \in Range(post) : PostBefore(q, post[id]) })]

\* C9: GetAllPosts(limit, offset) returns no error and exactly the posts of
\* the limit/offset window whose user is found, in the window's order; a post
\* whose user is not found is left out.
C9_UnresolvedSkipped ==
    LET rank == Rank
        stored == { us.id : us \in Range(users) }
    IN  \A N \in 0 .. MaxLimit, off \in 0 .. MaxLimit :
        LET g == GetAllPosts(post, users, N, off)
            window == { r \in Range(post) : rank[r.id] > off /\ rank[r.id] <= off + N }
            found == { r \in window : r.user_id \in stored }
        IN  /\ ~g.err
            /\ Len(g.posts) = Cardinality(found)
            /\ \A r \in found : \E i \in DOMAIN g.posts :
                   /\ g.posts[i].Id = r.id
                   /\ g.posts[i].Body = r.body
                   /\ g.posts[i].UUID = r.uuid
                   /\ g.posts[i].User.Id = r.user_id
            /\ \A i, j \in DOMAIN g.posts :
                   i < j => rank[g.posts[i].Id] < rank[g.posts[j].Id]

C9_Witness ==
    /\ Len(post) = 2
    /\ Len(GetAllPosts(post, users, 2, 0).posts) = 1
    /\ GetAllPosts(post, users, 1, 0).posts = <<>>
    /\ GetAllPosts(post, users, 1, 1).posts # <<>>

\* C10: the list AddChannels returns has one entry, holding no channel, for
\* each non-empty label whose lookup after the insert failed, and none for a
\* label whose lookup succeeded.
C10_CreatedHoldsFailedLookups ==
    last.op = "AddChannels" =>
        /\ last.lookupErrs \subseteq NonEmpty(last.names)
        /\ Len(last.ret) = Cardinality(last.lookupErrs)
        /\ \A i \in DOMAIN last.ret : last.ret[i] = Nil
        /\ \A i \in NonEmpty(last.names) :
               i \in last.lookupErrs <=>
                   ~\E r \in Range(last.before) :
                        r.user_id = last.u /\ r.slug = DerivedSlug(last.names[i])

C10_Witness ==
    /\ last.op = "AddChannels"
    /\ Len(last.names) = 2
    /\ last.names[1] # <<>>
    /\ last.lookupErrs = {2}
    /\ Len(last.ret) = 1

====
